---- MODULE Spec2Model ----
(***************************************************************************)
(* State-machine model of the ascifight board engine (BoardActions in      *)
(* board_actions.py): move / attack / grabput_flag over the shared board   *)
(* data, with the score, flag-return and respawn sub-rules they call.      *)
(*                                                                         *)
(* A board is the record [ac, fc, af]:                                     *)
(*   ac  actors_coordinates : actor -> coordinates                         *)
(*   fc  flags_coordinates  : flag (named by its team) -> coordinates      *)
(*   af  actor.flag         : actor -> flag it carries, or None            *)
(* Every engine method is an operator from a board to the SET of outcomes  *)
(* it can produce; the random draws and the reverse-index lookups are the  *)
(* sources of several outcomes.  The variable last holds what the latest   *)
(* call returned and the message it logged.                                *)
(***************************************************************************)
EXTENDS Integers, Sequences, FiniteSets, TLC

VARIABLES
    map_size,            \* board_data.map_size
    teams,               \* board_data.teams, in dictionary (insertion) order
    bases_coordinates,   \* board_data.bases_coordinates : team -> coordinates
    walls_coordinates,   \* board_data.walls_coordinates : set of coordinates
    grab,                \* actor.grab   (probability, in percent)
    attack_prob,         \* actor.attack (probability, in percent)
    home_flag_required,  \* config["game"]["home_flag_required"]
    board,               \* the mutable part: [ac, fc, af]
    last,                \* what the latest engine call returned and logged
    setup,               \* BoardSetup._place_bases_and_flags: its locals
    command_queue,       \* main.command_queue, an asyncio.Queue
    tick                 \* the tick loop of single_game: its position and locals

vars == <<map_size, teams, bases_coordinates, walls_coordinates, grab,
          attack_prob, home_flag_required, board, last, setup,
          command_queue, tick>>

static == <<map_size, teams, bases_coordinates, walls_coordinates, grab,
            attack_prob, home_flag_required, setup, command_queue, tick>>

----------------------------------------------------------------------------
(* Bounds of the model *)

\* side length of the square board
MapSize == 4

\* largest map size and largest number of teams given to the map generator
MaxSetupSize == 8

MaxTeams == 3

\* largest map size and largest wall count for which the whole of
\* initialize_map (bases, actors and walls) is explored
MaxGeneratorSize == 6

MaxWalls == 1

\* number of orders executed on a generated board
MaxGameOrders == 2

\* number of orders the clients submit
MaxOrders == 3

\* number of games that routine starts one after the other
MaxGames == 2

----------------------------------------------------------------------------
(* Vocabulary *)

None == "None"

Directions == {"left", "right", "down", "up"}

\* an actor is named by its team and its ident within the team
Actor(t, i) == [team |-> t, ident |-> i]

NoActor == Actor(None, 0)

\* random.random() draws from [0, 1); probabilities and draws are in percent
Draws == {0, 50, 99}

Min(a, b) == IF a < b THEN a ELSE b

Max(a, b) == IF a > b THEN a ELSE b

\* Coordinates(x, y) validates 0 <= x, y <= map_size - 1
ValidCoordinates(c) ==
    /\ c[1] >= 0 /\ c[1] <= map_size - 1
    /\ c[2] >= 0 /\ c[2] <= map_size - 1

AllCoordinates == (0 .. MapSize - 1) \X (0 .. MapSize - 1)

Actors == DOMAIN grab

TeamSet == {teams[i] : i \in 1 .. Len(teams)}

----------------------------------------------------------------------------
(* Reverse indexes of the board data.  coordinates_actors, coordinates_flags *)
(* and coordinates_bases are dictionaries from a cell to ONE occupant; when  *)
(* several occupants share the cell the dictionary holds one of them, so a   *)
(* lookup is modelled as the set of values it may return.                    *)

coordinates_actors(b, c) == {a \in Actors : b.ac[a] = c}

coordinates_flags(b, c) == {f \in TeamSet : b.fc[f] = c}

coordinates_bases(c) == {t \in TeamSet : bases_coordinates[t] = c}

\* dict.get(key): one of the occupants, or the default when there is none
Get(occupants, default) == IF occupants = {} THEN {default} ELSE occupants

----------------------------------------------------------------------------
(* BoardActions *)

calc_target_coordinates(b, actor, direction) ==
    LET coordinates == b.ac[actor]
        x == CASE direction = "right" -> Min(coordinates[1] + 1, map_size - 1)
               [] direction = "left"  -> Max(coordinates[1] - 1, 0)
               [] OTHER               -> coordinates[1]
        y == CASE direction = "up"    -> Min(coordinates[2] + 1, map_size - 1)
               [] direction = "down"  -> Max(coordinates[2] - 1, 0)
               [] OTHER               -> coordinates[2]
    IN  <<x, y>>

\* a mutant of _try_put_actor: the wall test is missing
TryPutActorThroughWalls(b, actor, new_coordinates) ==
    LET coordinates == b.ac[actor]
    IN  IF coordinates = new_coordinates
          THEN [b |-> b, moved |-> FALSE, log |-> "out of bounds"]
        ELSE IF coordinates_actors(b, new_coordinates) # {}
          THEN [b |-> b, moved |-> FALSE, log |-> "occupied"]
        ELSE IF coordinates_bases(new_coordinates) # {}
          THEN [b |-> b, moved |-> FALSE, log |-> "base"]
        ELSE LET b1 == [b EXCEPT !.ac[actor] = new_coordinates]
                 b2 == IF b1.af[actor] # None
                         THEN [b1 EXCEPT !.fc[b1.af[actor]] = new_coordinates]
                         ELSE b1
             IN  [b |-> b2, moved |-> TRUE, log |-> "moved"]

\* returns [b, moved, log]
_try_put_actor(b, actor, new_coordinates) ==
    LET coordinates == b.ac[actor]
    IN  IF coordinates = new_coordinates
          THEN [b |-> b, moved |-> FALSE, log |-> "out of bounds"]
        ELSE IF coordinates_actors(b, new_coordinates) # {}
          THEN [b |-> b, moved |-> FALSE, log |-> "occupied"]
        ELSE IF coordinates_bases(new_coordinates) # {}
          THEN [b |-> b, moved |-> FALSE, log |-> "base"]
        ELSE IF new_coordinates \in walls_coordinates
          THEN [b |-> b, moved |-> FALSE, log |-> "wall"]
        ELSE LET b1 == [b EXCEPT !.ac[actor] = new_coordinates]
                 b2 == IF b1.af[actor] # None
                         THEN [b1 EXCEPT !.fc[b1.af[actor]] = new_coordinates]
                         ELSE b1
             IN  [b |-> b2, moved |-> TRUE, log |-> "moved"]

\* a mutant of ScoreStep: the home flag is never required
ScoreStepWithoutHomeFlag(b, team_that_scored, flag_to_score) ==
    LET at_flag == coordinates_bases(b.fc[flag_to_score])
    IN  IF at_flag # {} /\ flag_to_score \notin at_flag
          THEN CHOOSE t \in at_flag : TRUE
          ELSE team_that_scored

\* one iteration of the loop of _check_score_conditions
ScoreStep(b, team_that_scored, flag_to_score) ==
    LET score_flag_coordinates == b.fc[flag_to_score]
        at_flag == coordinates_bases(score_flag_coordinates)
        base_at_flag_coordinates ==
            IF at_flag = {} THEN None ELSE CHOOSE t \in at_flag : TRUE
    IN  IF base_at_flag_coordinates # None
           /\ flag_to_score # base_at_flag_coordinates
          THEN LET scoring_team == base_at_flag_coordinates
               IN  IF b.fc[scoring_team] = bases_coordinates[scoring_team]
                      \/ ~home_flag_required
                     THEN scoring_team
                     ELSE team_that_scored
          ELSE team_that_scored

RECURSIVE ScoreLoop(_, _, _, _)
ScoreLoop(b, flags, i, team_that_scored) ==
    IF i > Len(flags) THEN team_that_scored
    ELSE ScoreLoop(b, flags, i + 1, ScoreStep(b, team_that_scored, flags[i]))

\* flag_to_score = None evaluates every flag, in the order of the dictionary
_check_score_conditions(b, flag_to_score) ==
    LET flags == IF flag_to_score # None THEN <<flag_to_score>> ELSE teams
    IN  ScoreLoop(b, flags, 1, None)

\* a mutant of _place_actor_in_area: the respawned actor keeps its flag
PlaceActorKeepingFlag(b, actor, possible_spawn_points, forbidden_positions) ==
    LET allowed_positions == possible_spawn_points \ forbidden_positions
    IN  IF allowed_positions = {}
          THEN {[b |-> b, raised |-> TRUE, dropped |-> FALSE]}
          ELSE {[b |-> [b EXCEPT !.ac[actor] = target_coordinates],
                 raised |-> FALSE, dropped |-> b.af[actor] # None] :
                    target_coordinates \in allowed_positions}

\* the set of outcomes [b, raised, dropped]; random.choice of an empty list
\* raises before anything is changed
_place_actor_in_area(b, actor, possible_spawn_points, forbidden_positions) ==
    LET allowed_positions == possible_spawn_points \ forbidden_positions
    IN  IF allowed_positions = {}
          THEN {[b |-> b, raised |-> TRUE, dropped |-> FALSE]}
          ELSE {[b |-> [b EXCEPT !.af[actor] = None,
                                 !.ac[actor] = target_coordinates],
                 raised |-> FALSE, dropped |-> b.af[actor] # None] :
                    target_coordinates \in allowed_positions}

\* a mutant of SpawnWindow: the window reaches one cell further
SpawnWindowFar(base_coordinates, reach) ==
    {c \in (base_coordinates[1] - reach - 1 .. base_coordinates[1] + reach + 1)
           \X (base_coordinates[2] - reach - 1 .. base_coordinates[2] + reach + 1) :
        ValidCoordinates(c)}

\* the cells of the window of _respawn around a base: base - reach .. base + reach
SpawnWindow(base_coordinates, reach) ==
    {c \in (base_coordinates[1] - reach .. base_coordinates[1] + reach)
           \X (base_coordinates[2] - reach .. base_coordinates[2] + reach) :
        ValidCoordinates(c)}

\* a mutant of _respawn: the cells of the other actors are not forbidden
RespawnOntoActors(b, actor) ==
    _place_actor_in_area(b, actor, SpawnWindow(bases_coordinates[actor.team], 2),
        {b.fc[f] : f \in TeamSet} \cup {bases_coordinates[t] : t \in TeamSet}
            \cup walls_coordinates)

\* a mutant of _respawn: the cells of the flags are not forbidden
RespawnOntoFlags(b, actor) ==
    _place_actor_in_area(b, actor, SpawnWindow(bases_coordinates[actor.team], 2),
        {b.ac[a] : a \in Actors} \cup {bases_coordinates[t] : t \in TeamSet}
            \cup walls_coordinates)

\* a mutant of _respawn: the window reaches one cell further
RespawnWide(b, actor) ==
    _place_actor_in_area(b, actor, SpawnWindow(bases_coordinates[actor.team], 3),
        {b.fc[f] : f \in TeamSet} \cup {b.ac[a] : a \in Actors}
            \cup {bases_coordinates[t] : t \in TeamSet} \cup walls_coordinates)

_respawn(b, actor) ==
    LET base_coordinates == bases_coordinates[actor.team]
        possible_spawn_points == SpawnWindow(base_coordinates, 2)
        actor_positions == {b.ac[a] : a \in Actors}
        flag_positions == {b.fc[f] : f \in TeamSet}
        base_positions == {bases_coordinates[t] : t \in TeamSet}
        forbidden_positions ==
            flag_positions \cup actor_positions \cup base_positions
                \cup walls_coordinates
    IN  _place_actor_in_area(b, actor, possible_spawn_points, forbidden_positions)

_return_flag_to_base(b, flag) ==
    [b EXCEPT !.fc[flag] = bases_coordinates[flag]]

\* a mutant of _check_flag_return_conditions: the actor keeps its reference
FlagReturnKeepingReference(b, actor) ==
    LET coordinates == b.ac[actor]
    IN  IF coordinates \in {b.fc[f] : f \in TeamSet}
          THEN {IF flag = actor.team
                  THEN LET b1 == _return_flag_to_base(b, flag)
                       IN  [b |-> b1,
                            team_that_scored |-> _check_score_conditions(b1, None)]
                  ELSE [b |-> b, team_that_scored |-> None]
                : flag \in coordinates_flags(b, coordinates)}
          ELSE {[b |-> b, team_that_scored |-> None]}

\* the set of outcomes [b, team_that_scored]
_check_flag_return_conditions(b, actor) ==
    LET coordinates == b.ac[actor]
    IN  IF coordinates \in {b.fc[f] : f \in TeamSet}
          THEN {IF flag = actor.team
                  THEN LET b1 == _return_flag_to_base(b, flag)
                           team_that_scored == _check_score_conditions(b1, None)
                           b2 == IF b1.af[actor] # None
                                   THEN [b1 EXCEPT !.af[actor] = None]
                                   ELSE b1
                       IN  [b |-> b2, team_that_scored |-> team_that_scored]
                  ELSE [b |-> b, team_that_scored |-> None]
                : flag \in coordinates_flags(b, coordinates)}
          ELSE {[b |-> b, team_that_scored |-> None]}

\* What a call of an engine method yields: the board it leaves, its boolean
\* result, the scoring team it reports, whether it raised instead of
\* returning, and the message its own branch logged.
Outcome(b, result, team_that_scored, raised, log) ==
    [b |-> b, result |-> result, team_that_scored |-> team_that_scored,
     raised |-> raised, log |-> log]

move(b, actor, direction) ==
    LET new_coordinates == calc_target_coordinates(b, actor, direction)
        put == _try_put_actor(b, actor, new_coordinates)
    IN  IF put.moved
          THEN {Outcome(o.b, TRUE, o.team_that_scored, FALSE, put.log) :
                    o \in _check_flag_return_conditions(put.b, actor)}
          ELSE {Outcome(put.b, FALSE, None, FALSE, put.log)}

\* a mutant of AttackTarget: a missed attack respawns the target all the same
AttackTargetMissRespawns(b, actor, target) ==
    IF target = NoActor
      THEN {Outcome(b, FALSE, None, FALSE, "no target")}
      ELSE UNION {
             IF ~(r < attack_prob[actor])
               THEN {Outcome(o.b, FALSE, None, o.raised, "missed") :
                         o \in _respawn(b, target)}
               ELSE {Outcome(o.b, ~o.raised, None, o.raised,
                             IF o.dropped THEN "hit, dropped flag" ELSE "hit") :
                         o \in _respawn(b, target)}
             : r \in Draws}

\* the outcomes of attack once the target actor has been looked up
AttackTarget(b, actor, target) ==
    IF target = NoActor
      THEN {Outcome(b, FALSE, None, FALSE, "no target")}
      ELSE UNION {
             IF ~(r < attack_prob[actor])
               THEN {Outcome(b, FALSE, None, FALSE, "missed")}
               ELSE {Outcome(o.b, ~o.raised, None, o.raised,
                             IF o.dropped THEN "hit, dropped flag" ELSE "hit") :
                         o \in _respawn(b, target)}
             : r \in Draws}

attack(b, actor, direction) ==
    IF attack_prob[actor] = 0
      THEN {Outcome(b, FALSE, None, FALSE, "can not attack")}
      ELSE LET target_coordinates == calc_target_coordinates(b, actor, direction)
           IN  UNION {AttackTarget(b, actor, target) :
                        target \in Get(coordinates_actors(b, target_coordinates),
                                       NoActor)}

\* a mutant of GrabputPut: an actor that can not grab is handed the flag too
GrabputPutToAnyone(b, actor, target_coordinates, target_actor) ==
    LET flag == b.af[actor]
    IN  IF target_actor # NoActor
          THEN IF b.af[target_actor] # None
                 THEN {Outcome(b, FALSE, None, FALSE, "target already has a flag")}
               ELSE LET b1 == [b EXCEPT !.fc[flag] = target_coordinates,
                                        !.af[actor] = None,
                                        !.af[target_actor] = flag]
                    IN  {Outcome(o.b, TRUE, o.team_that_scored, FALSE, "handed") :
                            o \in _check_flag_return_conditions(b1, target_actor)}
          ELSE IF target_coordinates \in walls_coordinates
                 THEN {Outcome(b, FALSE, None, FALSE, "hand to a wall")}
               ELSE LET b1 == [b EXCEPT !.fc[flag] = target_coordinates,
                                        !.af[actor] = None]
                    IN  {Outcome(b1, TRUE, _check_score_conditions(b1, flag),
                                 FALSE, "put")}

\* a mutant of GrabputPut: the actor that hands a flag over keeps its reference
GrabputPutKeepingFlag(b, actor, target_coordinates, target_actor) ==
    LET flag == b.af[actor]
    IN  IF target_actor # NoActor
          THEN IF grab[target_actor] = 0
                 THEN {Outcome(b, FALSE, None, FALSE, "target can not have the flag")}
               ELSE IF b.af[target_actor] # None
                 THEN {Outcome(b, FALSE, None, FALSE, "target already has a flag")}
               ELSE LET b1 == [b EXCEPT !.fc[flag] = target_coordinates,
                                        !.af[target_actor] = flag]
                    IN  {Outcome(o.b, TRUE, o.team_that_scored, FALSE, "handed") :
                            o \in _check_flag_return_conditions(b1, target_actor)}
          ELSE IF target_coordinates \in walls_coordinates
                 THEN {Outcome(b, FALSE, None, FALSE, "hand to a wall")}
               ELSE LET b1 == [b EXCEPT !.fc[flag] = target_coordinates,
                                        !.af[actor] = None]
                    IN  {Outcome(b1, TRUE, _check_score_conditions(b1, flag),
                                 FALSE, "put")}

\* the put branch of grabput_flag: the actor holds a flag
\* a mutant of GrabputPut: a flag can be put onto a wall
GrabputPutOntoWalls(b, actor, target_coordinates, target_actor) ==
    LET flag == b.af[actor]
    IN  IF target_actor # NoActor
          THEN IF grab[target_actor] = 0
                 THEN {Outcome(b, FALSE, None, FALSE, "target can not have the flag")}
               ELSE IF b.af[target_actor] # None
                 THEN {Outcome(b, FALSE, None, FALSE, "target already has a flag")}
               ELSE LET b1 == [b EXCEPT !.fc[flag] = target_coordinates,
                                        !.af[actor] = None,
                                        !.af[target_actor] = flag]
                    IN  {Outcome(o.b, TRUE, o.team_that_scored, FALSE, "handed") :
                            o \in _check_flag_return_conditions(b1, target_actor)}
          ELSE LET b1 == [b EXCEPT !.fc[flag] = target_coordinates,
                                   !.af[actor] = None]
               IN  {Outcome(b1, TRUE, _check_score_conditions(b1, flag),
                            FALSE, "put")}

\* a mutant of GrabputPut: a flag that scores on a put goes back to its base
GrabputPutReturningScoredFlag(b, actor, target_coordinates, target_actor) ==
    LET flag == b.af[actor]
    IN  IF target_actor # NoActor
          THEN IF grab[target_actor] = 0
                 THEN {Outcome(b, FALSE, None, FALSE, "target can not have the flag")}
               ELSE IF b.af[target_actor] # None
                 THEN {Outcome(b, FALSE, None, FALSE, "target already has a flag")}
               ELSE LET b1 == [b EXCEPT !.fc[flag] = target_coordinates,
                                        !.af[actor] = None,
                                        !.af[target_actor] = flag]
                    IN  {Outcome(o.b, TRUE, o.team_that_scored, FALSE, "handed") :
                            o \in _check_flag_return_conditions(b1, target_actor)}
          ELSE IF target_coordinates \in walls_coordinates
                 THEN {Outcome(b, FALSE, None, FALSE, "hand to a wall")}
               ELSE LET b1 == [b EXCEPT !.fc[flag] = target_coordinates,
                                        !.af[actor] = None]
                        scored == _check_score_conditions(b1, flag)
                        b2 == IF scored # None
                                THEN [b1 EXCEPT !.fc[flag] = bases_coordinates[flag]]
                                ELSE b1
                    IN  {Outcome(b2, TRUE, scored, FALSE, "put")}

GrabputPut(b, actor, target_coordinates, target_actor) ==
    LET flag == b.af[actor]
    IN  IF target_actor # NoActor
          THEN IF grab[target_actor] = 0
                 THEN {Outcome(b, FALSE, None, FALSE, "target can not have the flag")}
               ELSE IF b.af[target_actor] # None
                 THEN {Outcome(b, FALSE, None, FALSE, "target already has a flag")}
               ELSE LET b1 == [b EXCEPT !.fc[flag] = target_coordinates,
                                        !.af[actor] = None,
                                        !.af[target_actor] = flag]
                    IN  {Outcome(o.b, TRUE, o.team_that_scored, FALSE, "handed") :
                            o \in _check_flag_return_conditions(b1, target_actor)}
          ELSE IF target_coordinates \in walls_coordinates
                 THEN {Outcome(b, FALSE, None, FALSE, "hand to a wall")}
               ELSE LET b1 == [b EXCEPT !.fc[flag] = target_coordinates,
                                        !.af[actor] = None]
                    IN  {Outcome(b1, TRUE, _check_score_conditions(b1, flag),
                                 FALSE, "put")}

\* a mutant of GrabputGrab: the outcome of the draw is inverted
GrabputGrabInverted(b, actor, target_coordinates, target_actor, grab_successful) ==
    UNION {
      IF flag = None
        THEN {Outcome(b, FALSE, None, FALSE, "no flag")}
      ELSE IF ~grab_successful
        THEN LET b1 == [b EXCEPT !.fc[flag] = b.ac[actor],
                                 !.af[actor] = flag]
                 b2 == IF target_actor # NoActor
                         THEN [b1 EXCEPT !.af[target_actor] = None]
                         ELSE b1
             IN  {Outcome(o.b, TRUE, o.team_that_scored, FALSE, "grabbed") :
                     o \in _check_flag_return_conditions(b2, actor)}
        ELSE {Outcome(b, FALSE, None, FALSE, "grabbed and missed")}
      : flag \in Get(coordinates_flags(b, target_coordinates), None)}

\* the grab branch of grabput_flag: the actor holds no flag
GrabputGrab(b, actor, target_coordinates, target_actor, grab_successful) ==
    UNION {
      IF flag = None
        THEN {Outcome(b, FALSE, None, FALSE, "no flag")}
      ELSE IF grab_successful
        THEN LET b1 == [b EXCEPT !.fc[flag] = b.ac[actor],
                                 !.af[actor] = flag]
                 b2 == IF target_actor # NoActor
                         THEN [b1 EXCEPT !.af[target_actor] = None]
                         ELSE b1
             IN  {Outcome(o.b, TRUE, o.team_that_scored, FALSE, "grabbed") :
                     o \in _check_flag_return_conditions(b2, actor)}
        ELSE {Outcome(b, FALSE, None, FALSE, "grabbed and missed")}
      : flag \in Get(coordinates_flags(b, target_coordinates), None)}

grabput_flag(b, actor, direction) ==
    LET target_coordinates == calc_target_coordinates(b, actor, direction)
    IN  UNION {
          UNION {
            IF b.af[actor] # None
              THEN GrabputPut(b, actor, target_coordinates, target_actor)
              ELSE GrabputGrab(b, actor, target_coordinates, target_actor,
                               r < grab[actor])
            : target_actor \in Get(coordinates_actors(b, target_coordinates), NoActor)}
          : r \in Draws}

----------------------------------------------------------------------------
(* The state machine: one action per engine method *)

Returned(op, o) ==
    [op |-> op, log |-> o.log, result |-> o.result,
     team_that_scored |-> o.team_that_scored, raised |-> o.raised]

Move(actor, direction) ==
    \E o \in move(board, actor, direction) :
        /\ board' = o.b
        /\ last' = Returned("move", o)
        /\ UNCHANGED static

Attack(actor, direction) ==
    \E o \in attack(board, actor, direction) :
        /\ board' = o.b
        /\ last' = Returned("attack", o)
        /\ UNCHANGED static

GrabputFlag(actor, direction) ==
    \E o \in grabput_flag(board, actor, direction) :
        /\ board' = o.b
        /\ last' = Returned("grabput_flag", o)
        /\ UNCHANGED static

\* the tick loop before the first tick of the first game: nothing is
\* collected, no order has been submitted or handed to the game
TickStart ==
    [pc |-> "pregame", items |-> <<>>, commands |-> <<>>,
     submitted |-> <<>>, executed |-> <<>>, mark |-> 0, game |-> 1]

\* the map generator once initialize_map has returned: the loop of
\* _place_bases_and_flags has ended, every team has its actors and the walls
\* are placed
SetupDone ==
    [i |-> Len(teams), available_places |-> {}, team |-> Len(teams),
     walls |-> Cardinality(walls_coordinates), done |-> TRUE]

\* the teams of the game, in the order setup inserts them
TeamOrder == <<"S", "G">>

\* the actor types in play and the home_flag_required setting
Configurations ==
    { [grab |-> (Actor("S", 0) :> 100 @@ Actor("G", 0) :> 50),
       attack |-> (Actor("S", 0) :> 100 @@ Actor("G", 0) :> 50)],
      [grab |-> (Actor("S", 0) :> 0 @@ Actor("G", 0) :> 100),
       attack |-> (Actor("S", 0) :> 0 @@ Actor("G", 0) :> 100)] }

\* the base cells and wall cells of the board data the engine is given: a
\* compact layout that puts bases, walls, the board edge and both respawn
\* windows within reach of every actor
BasePositions == ("S" :> <<0, 0>> @@ "G" :> <<2, 2>>)

\* the wall cells of the map; the cells off the board do not exist
WallPositions ==
    { <<2, 0>>, <<3, 0>>, <<4, 0>>, <<3, 1>>, <<4, 1>>,
      <<4, 2>>, <<0, 3>>, <<1, 3>>, <<4, 3>>,
      <<0, 4>>, <<1, 4>>, <<2, 4>>, <<4, 4>> }

\* _get_area_positions(center, distance): inclusive low, exclusive high
_get_area_positions(center, distance) ==
    {c \in (center[1] - distance .. center[1] + distance - 1)
           \X (center[2] - distance .. center[2] + distance - 1) :
        ValidCoordinates(c)}

\* The board after setup: every flag on its base, nobody holds a flag, and the
\* actors on distinct free cells of the start window of their base.
Init ==
    /\ map_size = MapSize
    /\ teams = TeamOrder
    /\ bases_coordinates = BasePositions
    /\ walls_coordinates = {c \in WallPositions : c \in AllCoordinates}
    /\ \E p \in Configurations : grab = p.grab /\ attack_prob = p.attack
    /\ home_flag_required \in BOOLEAN
    /\ \E ac \in [DOMAIN grab -> AllCoordinates] :
          /\ \A a \in DOMAIN ac :
                /\ ac[a] \in _get_area_positions(bases_coordinates[a.team], 2)
                /\ ac[a] \notin {bases_coordinates[t] : t \in TeamSet}
                /\ ac[a] \notin walls_coordinates
          /\ \A a1, a2 \in DOMAIN ac : a1 # a2 => ac[a1] # ac[a2]
          /\ board = [ac |-> ac,
                      fc |-> bases_coordinates,
                      af |-> [a \in DOMAIN ac |-> None]]
    /\ last = [op |-> "none", log |-> "none", result |-> FALSE,
               team_that_scored |-> None, raised |-> FALSE]
    /\ setup = SetupDone
    /\ command_queue = <<>>
    /\ tick = TickStart

Next ==
    \E actor \in Actors, direction \in Directions :
        \/ Move(actor, direction)
        \/ Attack(actor, direction)
        \/ GrabputFlag(actor, direction)

Spec == Init /\ [][Next]_vars

(* A game of four teams, one Generalist each, taken up at a board on which *)
(* flags rest where earlier grabs and puts have left them, and continued   *)
(* with move orders.                                                        *)
FourTeamOrder == <<"S", "G", "M", "R">>

FourBasePositions ==
    ("S" :> <<0, 0>> @@ "G" :> <<2, 2>> @@ "M" :> <<3, 3>> @@ "R" :> <<0, 2>>)

RestingFlags ==
    {fc \in [{"S", "G", "M", "R"} -> AllCoordinates] :
        /\ fc["S"] \in {FourBasePositions["S"], <<1, 0>>, <<1, 1>>}
        /\ fc["G"] \in {FourBasePositions["G"], FourBasePositions["S"]}
        /\ fc["M"] = FourBasePositions["M"]
        /\ fc["R"] \in {FourBasePositions["R"], FourBasePositions["M"]}}

InitFourTeams ==
    /\ map_size = MapSize
    /\ teams = FourTeamOrder
    /\ bases_coordinates = FourBasePositions
    /\ walls_coordinates = {c \in WallPositions : c \in AllCoordinates}
    /\ grab = [a \in {Actor(t, 0) : t \in {"S", "G", "M", "R"}} |-> 100]
    /\ attack_prob = grab
    /\ home_flag_required = TRUE
    /\ \E ac \in [DOMAIN grab -> AllCoordinates], fc \in RestingFlags :
          /\ \A a \in DOMAIN ac :
                /\ ac[a] \notin {bases_coordinates[t] : t \in TeamSet}
                /\ ac[a] \notin walls_coordinates
                /\ ac[a] \notin {fc[t] : t \in TeamSet}
          /\ \A a1, a2 \in DOMAIN ac : a1 # a2 => ac[a1] # ac[a2]
          /\ board = [ac |-> ac,
                      fc |-> fc,
                      af |-> [a \in DOMAIN ac |-> None]]
    /\ last = [op |-> "none", log |-> "none", result |-> FALSE,
               team_that_scored |-> None, raised |-> FALSE]
    /\ setup = SetupDone
    /\ command_queue = <<>>
    /\ tick = TickStart

NextFourTeams == \E actor \in Actors, direction \in Directions : Move(actor, direction)

SpecFourTeams == InitFourTeams /\ [][NextFourTeams]_vars

----------------------------------------------------------------------------
(* BoardSetup._place_bases_and_flags, one step per iteration of its loop.  *)
(* It fills the dictionaries bases_coordinates and flags_coordinates of    *)
(* the board data, which start empty.                                      *)

\* int((map_size ** 2 / len(teams)) ** 0.5 / 1.2) - 1, in integers:
\* k <= sqrt(n * n / t) / 1.2  iff  36 * k * k * t <= 25 * n * n
minimum_distance(n, team_count) ==
    (CHOOSE k \in 0 .. n :
        /\ 36 * k * k * team_count <= 25 * n * n
        /\ 36 * (k + 1) * (k + 1) * team_count > 25 * n * n) - 1

\* range(2, map_size - 2) in x and in y
InteriorPlaces(n) == (2 .. n - 3) \X (2 .. n - 3)

\* the branch "if not available_places": the pool is filled again and the
\* loop starts over with the first team
ResetPlaces ==
    /\ setup.i < Len(teams)
    /\ setup.available_places = {}
    /\ setup' = [setup EXCEPT !.i = 0,
                              !.available_places = InteriorPlaces(map_size)]
    /\ UNCHANGED <<map_size, teams, bases_coordinates, walls_coordinates, grab,
                   attack_prob, home_flag_required, board, last,
                   command_queue, tick>>

\* a mutant of PlaceBase: the exclusion window stays in the pool
PlaceBaseKeepingPool(place_chosen) ==
    /\ setup.i < Len(teams)
    /\ place_chosen \in setup.available_places
    /\ LET team == teams[setup.i + 1]
       IN  /\ setup' = [setup EXCEPT !.i = setup.i + 1]
           /\ bases_coordinates' = (team :> place_chosen) @@ bases_coordinates
           /\ board' = [board EXCEPT !.fc = (team :> place_chosen) @@ board.fc]
    /\ UNCHANGED <<map_size, teams, walls_coordinates, grab, attack_prob,
                   home_flag_required, last, command_queue, tick>>

\* the else branch: random.choice(available_places) becomes the base and the
\* flag cell of the team, and its exclusion window leaves the pool
PlaceBase(place_chosen) ==
    /\ setup.i < Len(teams)
    /\ place_chosen \in setup.available_places
    /\ LET team == teams[setup.i + 1]
           window == _get_area_positions(place_chosen,
                         minimum_distance(map_size, Len(teams)))
       IN  /\ setup' = [setup EXCEPT !.i = setup.i + 1,
                                     !.available_places =
                                         setup.available_places \ window]
           /\ bases_coordinates' = (team :> place_chosen) @@ bases_coordinates
           /\ board' = [board EXCEPT !.fc = (team :> place_chosen) @@ board.fc]
    /\ UNCHANGED <<map_size, teams, walls_coordinates, grab, attack_prob,
                   home_flag_required, last, command_queue, tick>>

\* the generator is given a map size and a list of teams
InitSetup ==
    /\ map_size \in 5 .. MaxSetupSize
    /\ \E team_count \in 1 .. MaxTeams : teams = SubSeq(FourTeamOrder, 1, team_count)
    /\ bases_coordinates = <<>>
    /\ walls_coordinates = {}
    /\ grab = <<>>
    /\ attack_prob = <<>>
    /\ home_flag_required = TRUE
    /\ board = [ac |-> <<>>, fc |-> <<>>, af |-> <<>>]
    /\ last = [op |-> "none", log |-> "none", result |-> FALSE,
               team_that_scored |-> None, raised |-> FALSE]
    /\ setup = [i |-> 0, available_places |-> InteriorPlaces(map_size),
                team |-> 0, walls |-> 0, done |-> FALSE]
    /\ command_queue = <<>>
    /\ tick = TickStart

NextSetup ==
    \/ ResetPlaces
    \/ \E place_chosen \in InteriorPlaces(MaxSetupSize) : PlaceBase(place_chosen)

SpecSetup == InitSetup /\ [][NextSetup]_vars

\* the loop keeps running, and random.choice is uniform: a place that is in
\* the pool again and again is chosen in the end
SpecSetupFair ==
    /\ SpecSetup
    /\ WF_vars(ResetPlaces)
    /\ \A place_chosen \in InteriorPlaces(MaxSetupSize) :
          SF_vars(PlaceBase(place_chosen))

----------------------------------------------------------------------------
(* BoardSetup.initialize_map as a whole: _place_board_objects places the    *)
(* bases and flags, then the actors of each team, then the walls.  main.py  *)
(* gives every team one Generalist.                                         *)

\* game.Generalist: grab and attack probability, in percent
Generalist == [grab |-> 100, attack |-> 100]

\* the body of the loop over the teams in _place_board_objects: the actor of
\* the team is created and _place_actors puts it on the first cell of the
\* shuffled start area of its base
PlaceActors(starting_place) ==
    /\ setup.i = Len(teams)
    /\ setup.team < Len(teams)
    /\ LET team == teams[setup.team + 1]
           base == bases_coordinates[team]
           starting_places == _get_area_positions(base, 2) \ {base}
           actor == Actor(team, 0)
       IN  /\ starting_place \in starting_places
           /\ board' = [board EXCEPT !.ac = (actor :> starting_place) @@ board.ac,
                                     !.af = (actor :> None) @@ board.af]
           /\ grab' = (actor :> Generalist.grab) @@ grab
           /\ attack_prob' = (actor :> Generalist.attack) @@ attack_prob
    /\ setup' = [setup EXCEPT !.team = setup.team + 1]
    /\ UNCHANGED <<map_size, teams, bases_coordinates, walls_coordinates,
                   home_flag_required, last, command_queue, tick>>

\* the subsets of k elements of a set: the first k entries of a shuffled list
RECURSIVE FirstOfShuffled(_, _)
FirstOfShuffled(possible_coordinates, k) ==
    IF k = 0 \/ possible_coordinates = {}
      THEN {{}}
      ELSE UNION {{{c} \cup rest :
                      rest \in FirstOfShuffled(possible_coordinates \ {c}, k - 1)} :
                  c \in possible_coordinates}

\* _place_walls: the first self.walls cells of the shuffled list of cells
\* outside the area of distance 3 of every base
PlaceWalls ==
    /\ setup.i = Len(teams)
    /\ setup.team = Len(teams)
    /\ ~setup.done
    /\ LET forbidden_positions ==
               UNION {_get_area_positions(bases_coordinates[t], 3) : t \in TeamSet}
           all_positions == (0 .. map_size - 1) \X (0 .. map_size - 1)
           possible_coordinates == all_positions \ forbidden_positions
       IN  \E walls_chosen \in FirstOfShuffled(possible_coordinates, setup.walls) :
               walls_coordinates' = walls_chosen
    /\ setup' = [setup EXCEPT !.done = TRUE]
    /\ UNCHANGED <<map_size, teams, bases_coordinates, grab, attack_prob,
                   home_flag_required, board, last, command_queue, tick>>

\* the generator is given a map size, a list of teams and a wall count
InitGenerator ==
    /\ map_size \in 5 .. MaxGeneratorSize
    /\ \E team_count \in 1 .. MaxTeams : teams = SubSeq(FourTeamOrder, 1, team_count)
    /\ bases_coordinates = <<>>
    /\ walls_coordinates = {}
    /\ grab = <<>>
    /\ attack_prob = <<>>
    /\ home_flag_required = TRUE
    /\ board = [ac |-> <<>>, fc |-> <<>>, af |-> <<>>]
    /\ last = [op |-> "none", log |-> "none", result |-> FALSE,
               team_that_scored |-> None, raised |-> FALSE]
    /\ \E walls \in 0 .. MaxWalls :
          setup = [i |-> 0, available_places |-> InteriorPlaces(map_size),
                   team |-> 0, walls |-> walls, done |-> FALSE]
    /\ command_queue = <<>>
    /\ tick = TickStart

NextGenerator ==
    \/ ResetPlaces
    \/ \E place_chosen \in InteriorPlaces(MaxGeneratorSize) : PlaceBase(place_chosen)
    \/ \E starting_place \in (0 .. MaxGeneratorSize - 1) \X (0 .. MaxGeneratorSize - 1) :
          PlaceActors(starting_place)
    \/ PlaceWalls

SpecGenerator == InitGenerator /\ [][NextGenerator]_vars

(* A game of the three teams of main.py on a board that initialize_map can  *)
(* return for map size 6 without walls, followed for the first orders that  *)
(* execute_game_step hands to the engine.                                   *)

\* bases that the placement loop can choose for map size 6: each one lies
\* outside the exclusion windows of the ones placed before it
GeneratedBases == ("S" :> <<2, 2>> @@ "G" :> <<2, 3>> @@ "M" :> <<3, 2>>)

\* the start cells followed here, out of the start areas of the bases
StartCells == {<<1, 2>>, <<1, 3>>}

InitGenerated ==
    /\ map_size = 6
    /\ teams = SubSeq(FourTeamOrder, 1, 3)
    /\ bases_coordinates = GeneratedBases
    /\ \A j \in 1 .. Len(teams) :
          /\ bases_coordinates[teams[j]] \in InteriorPlaces(map_size)
          /\ \A k \in 1 .. j - 1 :
                bases_coordinates[teams[j]] \notin
                    _get_area_positions(bases_coordinates[teams[k]],
                                        minimum_distance(map_size, Len(teams)))
    /\ walls_coordinates = {}
    /\ grab = [a \in {Actor(teams[j], 0) : j \in 1 .. Len(teams)} |-> Generalist.grab]
    /\ attack_prob = [a \in DOMAIN grab |-> Generalist.attack]
    /\ home_flag_required \in BOOLEAN
    /\ \E ac \in [DOMAIN grab -> StartCells] :
          /\ \A a \in DOMAIN ac :
                ac[a] \in _get_area_positions(bases_coordinates[a.team], 2)
                             \ {bases_coordinates[a.team]}
          /\ board = [ac |-> ac,
                      fc |-> bases_coordinates,
                      af |-> [a \in DOMAIN ac |-> None]]
    /\ last = [op |-> "none", log |-> "none", result |-> FALSE,
               team_that_scored |-> None, raised |-> FALSE]
    /\ setup = SetupDone
    /\ command_queue = <<>>
    /\ tick = TickStart

\* execute_game_step hands one more order to the engine
ExecuteOrder(actor, direction) ==
    /\ Len(tick.executed) < MaxGameOrders
    /\ \E kind \in {"move", "attack", "grabput_flag"} :
          \E o \in CASE kind = "move" -> move(board, actor, direction)
                     [] kind = "attack" -> attack(board, actor, direction)
                     [] OTHER -> grabput_flag(board, actor, direction) :
              /\ board' = o.b
              /\ last' = Returned(kind, o)
              /\ tick' = [tick EXCEPT !.executed =
                              Append(@, [id |-> Len(@) + 1, kind |-> kind,
                                         game |-> tick.game])]
    /\ UNCHANGED <<map_size, teams, bases_coordinates, walls_coordinates, grab,
                   attack_prob, home_flag_required, setup, command_queue>>

NextGenerated ==
    \E actor \in Actors, direction \in Directions : ExecuteOrder(actor, direction)

SpecGenerated == InitGenerated /\ [][NextGenerated]_vars

----------------------------------------------------------------------------
(* The tick loop of single_game and the order endpoints, which share the   *)
(* queue command_queue.  The loop can be suspended at each of its awaits,  *)
(* and an endpoint runs to its end whenever it is called.  tick.submitted  *)
(* and tick.executed record the orders the endpoints have enqueued and the *)
(* orders handed to execute_game_step; tick.mark is the number of orders   *)
(* enqueued before the sentinel of the tick.                               *)

SENTINEL == [id |-> 0, kind |-> "SENTINEL", game |-> 0]

OrderKinds == {"move", "attack", "grabput"}

\* move_order, attack_order, grabput_order: command_queue.put_nowait(order)
Submit(kind) ==
    /\ Len(tick.submitted) < MaxOrders
    /\ LET order == [id |-> Len(tick.submitted) + 1, kind |-> kind,
                     game |-> tick.game]
       IN  /\ command_queue' = Append(command_queue, order)
           /\ tick' = [tick EXCEPT !.submitted = Append(@, order)]
    /\ UNCHANGED <<map_size, teams, bases_coordinates, walls_coordinates, grab,
                   attack_prob, home_flag_required, board, last, setup>>

\* the pre-game wait of single_game
Pregame ==
    /\ tick.pc = "pregame"
    /\ tick' = [tick EXCEPT !.pc = "put"]
    /\ UNCHANGED <<map_size, teams, bases_coordinates, walls_coordinates, grab,
                   attack_prob, home_flag_required, board, last, setup,
                   command_queue>>

\* await command_queue.put(SENTINEL), and the first line of get_all_queue_items
TickPut ==
    /\ tick.pc = "put"
    /\ command_queue' = Append(command_queue, SENTINEL)
    /\ tick' = [tick EXCEPT !.pc = "get", !.items = <<>>,
                            !.mark = Len(tick.submitted)]
    /\ UNCHANGED <<map_size, teams, bases_coordinates, walls_coordinates, grab,
                   attack_prob, home_flag_required, board, last, setup>>

\* a mutant of TickGet: an order taken from the queue is not collected
TickGetDropping ==
    /\ tick.pc = "get"
    /\ command_queue # <<>>
    /\ LET item == Head(command_queue)
       IN  /\ command_queue' = Tail(command_queue)
           /\ tick' = IF item # SENTINEL
                        THEN tick
                        ELSE [tick EXCEPT !.pc = "execute", !.commands = tick.items]
    /\ UNCHANGED <<map_size, teams, bases_coordinates, walls_coordinates, grab,
                   attack_prob, home_flag_required, board, last, setup>>

\* item = await queue.get() in get_all_queue_items, with what follows it up
\* to the next await or the return
TickGet ==
    /\ tick.pc = "get"
    /\ command_queue # <<>>
    /\ LET item == Head(command_queue)
       IN  /\ command_queue' = Tail(command_queue)
           /\ tick' = IF item # SENTINEL
                        THEN [tick EXCEPT !.items = Append(@, item)]
                        ELSE [tick EXCEPT !.pc = "execute", !.commands = tick.items]
    /\ UNCHANGED <<map_size, teams, bases_coordinates, walls_coordinates, grab,
                   attack_prob, home_flag_required, board, last, setup>>

\* my_game.execute_game_step(commands)
TickExecute ==
    /\ tick.pc = "execute"
    /\ tick' = [tick EXCEPT !.pc = "sleep", !.executed = @ \o tick.commands]
    /\ UNCHANGED <<map_size, teams, bases_coordinates, walls_coordinates, grab,
                   attack_prob, home_flag_required, board, last, setup,
                   command_queue>>

\* await asyncio.sleep(WAIT_TIME) and the loop test: the game goes on with the
\* next tick, or it has ended and routine starts the next game
TickSleep ==
    /\ tick.pc = "sleep"
    /\ \E game_end \in BOOLEAN :
          IF game_end
            THEN /\ tick.game < MaxGames
                 /\ tick' = [tick EXCEPT !.pc = "pregame", !.game = @ + 1]
            ELSE tick' = [tick EXCEPT !.pc = "put"]
    /\ UNCHANGED <<map_size, teams, bases_coordinates, walls_coordinates, grab,
                   attack_prob, home_flag_required, board, last, setup,
                   command_queue>>

InitTick ==
    /\ map_size = MapSize
    /\ teams = TeamOrder
    /\ bases_coordinates = <<>>
    /\ walls_coordinates = {}
    /\ grab = <<>>
    /\ attack_prob = <<>>
    /\ home_flag_required = TRUE
    /\ board = [ac |-> <<>>, fc |-> <<>>, af |-> <<>>]
    /\ last = [op |-> "none", log |-> "none", result |-> FALSE,
               team_that_scored |-> None, raised |-> FALSE]
    /\ setup = SetupDone
    /\ command_queue = <<>>
    /\ tick = TickStart

NextTick ==
    \/ \E kind \in OrderKinds : Submit(kind)
    \/ Pregame
    \/ TickPut
    \/ TickGet
    \/ TickExecute
    \/ TickSleep

SpecTick == InitTick /\ [][NextTick]_vars

----------------------------------------------------------------------------
(* Vocabulary of the properties.  A property of a method is stated over    *)
(* every outcome the method can have on the current board, for every actor *)
(* and direction: those outcomes are exactly the steps the action takes.   *)

Target(actor, direction) == calc_target_coordinates(board, actor, direction)

BaseCells == {bases_coordinates[t] : t \in TeamSet}

FlagsAt(b, c) == {f \in TeamSet : b.fc[f] = c}

ActorsAt(b, c) == {a \in Actors : b.ac[a] = c}

Abs(n) == IF n < 0 THEN -n ELSE n

\* C1: a move whose clamped target is the actor's own cell, a cell occupied by
\* another actor, a base or a wall returns moved = false and changes nothing
\* of the board.
MoveRejected(actor, direction) ==
    LET t == Target(actor, direction)
    IN  \/ t = board.ac[actor]
        \/ \E other \in Actors \ {actor} : board.ac[other] = t
        \/ t \in BaseCells
        \/ t \in walls_coordinates

C1_RejectedMoveChangesNothing ==
    \A actor \in Actors, direction \in Directions :
        MoveRejected(actor, direction)
            => \A o \in move(board, actor, direction) :
                  o.result = FALSE /\ o.b = board

\* a move was just rejected for a wall, and an actor does face a wall
C1_Witness ==
    /\ last.op = "move" /\ last.log = "wall" /\ last.result = FALSE
    /\ \E actor \in Actors, direction \in Directions :
          Target(actor, direction) \in walls_coordinates

\* C2: no two actors ever occupy the same cell.
C2_ActorsOnDistinctCells ==
    \A a1, a2 \in Actors : a1 # a2 => board.ac[a1] # board.ac[a2]

\* an actor was just respawned while the actors stand next to each other
C2_Witness ==
    /\ last.op = "attack" /\ last.result = TRUE
    /\ \E a1, a2 \in Actors :
          /\ a1 # a2
          /\ Abs(board.ac[a1][1] - board.ac[a2][1])
                + Abs(board.ac[a1][2] - board.ac[a2][2]) = 1

\* C3, first half: a flag that an actor carries is stored at that actor's cell.
C3_CarriedFlagAtCarrier ==
    \A a \in Actors :
        board.af[a] # None => board.fc[board.af[a]] = board.ac[a]

\* C3: a flag that an actor carries is stored at that actor's cell, and a
\* successful move of an actor that carries a flag leaves that flag at the
\* mover's new cell.
C3_CarriedFlagFollowsCarrier ==
    /\ C3_CarriedFlagAtCarrier
    /\ \A actor \in Actors, direction \in Directions :
          board.af[actor] # None
              => \A o \in move(board, actor, direction) :
                    o.result = TRUE => o.b.fc[board.af[actor]] = o.b.ac[actor]

\* C4: an actor that successfully moves onto the cell where its own team's
\* flag is located finds that flag on its own base when move returns.
C4_OwnFlagReturnedOnMove ==
    \A actor \in Actors, direction \in Directions :
        board.fc[actor.team] = Target(actor, direction)
            => \A o \in move(board, actor, direction) :
                  o.result = TRUE
                      => o.b.fc[actor.team] = bases_coordinates[actor.team]

\* C5: with home_flag_required, the team a call reports as scoring has its own
\* flag on its own base.
C5_NoScoreWhileOwnFlagAway ==
    (home_flag_required /\ last.team_that_scored # None)
        => board.fc[last.team_that_scored]
              = bases_coordinates[last.team_that_scored]

\* an enemy flag rests on a team's base, that team's flag is away, and the put
\* that was just evaluated reported no score
C5_Witness ==
    /\ home_flag_required
    /\ last.op = "grabput_flag" /\ last.log = "put"
    /\ last.team_that_scored = None
    /\ \E t \in TeamSet :
          /\ board.fc[t] # bases_coordinates[t]
          /\ \E f \in TeamSet \ {t} : board.fc[f] = bases_coordinates[t]

\* C6: with home_flag_required, when an enemy flag rests on team T's base, T's
\* flag is away and a move, a grab or a hand-over sends T's flag back to T's
\* base through the flag-return condition, that call reports T as scoring.
ReturnsFlagOf(t, o) ==
    /\ o.log \in {"moved", "grabbed", "handed"}
    /\ board.fc[t] # bases_coordinates[t]
    /\ o.b.fc[t] = bases_coordinates[t]

EnemyFlagRestsOnBase(t, o) ==
    \E f \in TeamSet \ {t} :
        board.fc[f] = bases_coordinates[t] /\ o.b.fc[f] = bases_coordinates[t]

C6_ReturnReportsPendingScore ==
    home_flag_required
        => \A actor \in Actors, direction \in Directions :
              \A o \in move(board, actor, direction)
                        \cup grabput_flag(board, actor, direction) :
                  \A t \in TeamSet :
                      (ReturnsFlagOf(t, o) /\ EnemyFlagRestsOnBase(t, o))
                          => o.team_that_scored = t

\* C7: an attack by an actor of attack probability 1.0 on an occupied cell
\* returns attacked = true and leaves the target within 2 of its base in x
\* and in y.
WithinTwoOfBase(b, actor) ==
    /\ Abs(b.ac[actor][1] - bases_coordinates[actor.team][1]) <= 2
    /\ Abs(b.ac[actor][2] - bases_coordinates[actor.team][2]) <= 2

C7_SureAttackRespawnsNearBase ==
    \A actor \in Actors, direction \in Directions :
        attack_prob[actor] = 100
            => \A target \in ActorsAt(board, Target(actor, direction)) :
                  \A o \in attack(board, actor, direction) :
                      o.result = TRUE /\ WithinTwoOfBase(o.b, target)

\* an attack just hit, and only an actor of attack probability 1.0 can have hit
C7_Witness ==
    /\ last.op = "attack" /\ last.log = "hit" /\ last.result = TRUE
    /\ \A a \in Actors : attack_prob[a] \in {0, 100}

\* C8: the respawn of an actor that carries flag F leaves F where the actor
\* was, clears the actor's flag, and moves no other flag and no other actor.
C8_RespawnDropsFlagInPlace ==
    \A actor \in Actors, direction \in Directions :
        \A target \in ActorsAt(board, Target(actor, direction)) :
            board.af[target] # None
                => \A o \in attack(board, actor, direction) :
                      o.result = TRUE
                          => /\ o.b.fc[board.af[target]] = board.ac[target]
                             /\ o.b.af[target] = None
                             /\ \A f \in TeamSet \ {board.af[target]} :
                                    o.b.fc[f] = board.fc[f]
                             /\ \A other \in Actors \ {target} :
                                    o.b.ac[other] = board.ac[other]

\* an attack just hit a carrier, whose flag now lies on a free cell
C8_Witness ==
    /\ last.op = "attack" /\ last.log = "hit, dropped flag" /\ last.result = TRUE
    /\ \E f \in TeamSet :
          /\ board.fc[f] \notin BaseCells
          /\ \A a \in Actors : board.af[a] # f /\ board.ac[a] # board.fc[f]

\* C9: a respawn puts the actor on a cell that held no actor, no flag, no base
\* and no wall just before.
C9_RespawnOnFreeCell ==
    \A actor \in Actors, direction \in Directions :
        \A target \in ActorsAt(board, Target(actor, direction)) :
            \A o \in attack(board, actor, direction) :
                o.result = TRUE
                    => o.b.ac[target] \notin
                          ({board.ac[a] : a \in Actors}
                              \cup {board.fc[f] : f \in TeamSet}
                              \cup BaseCells \cup walls_coordinates)

\* an actor was just respawned while both flags lay off the bases
C9_Witness ==
    /\ last.op = "attack" /\ last.result = TRUE
    /\ \A f \in TeamSet : board.fc[f] \notin BaseCells

\* C10: with grab probability 1.0 a grab aimed at a cell that holds a flag and
\* a put aimed at a cell that is no wall and whose occupant, if any, can accept
\* the flag return acted = true; with grab probability 0.0 grabput_flag never
\* returns acted = true.
CanAccept(occupant) == grab[occupant] # 0 /\ board.af[occupant] = None

C10_SureGrabAndPut ==
    \A actor \in Actors, direction \in Directions :
        \A o \in grabput_flag(board, actor, direction) :
            LET t == Target(actor, direction)
            IN  /\ (grab[actor] = 100 /\ board.af[actor] = None
                        /\ FlagsAt(board, t) # {})
                      => o.result = TRUE
                /\ (grab[actor] = 100 /\ board.af[actor] # None
                        /\ t \notin walls_coordinates
                        /\ \A occupant \in ActorsAt(board, t) : CanAccept(occupant))
                      => o.result = TRUE
                /\ grab[actor] = 0 => o.result = FALSE

\* a flag was just grabbed, and only an actor of grab probability 1.0 can
\* have grabbed
C10_Witness ==
    /\ last.op = "grabput_flag" /\ last.log = "grabbed" /\ last.result = TRUE
    /\ \A a \in Actors : grab[a] \in {0, 100}

\* C11: an actor of grab probability 0 never carries a flag: no grab of its own
\* gives it one, and a put that another carrier aims at it returns acted =
\* false and changes nothing of the board.
C11_NoGrabNoFlag ==
    /\ \A a \in Actors : grab[a] = 0 => board.af[a] = None
    /\ \A actor \in Actors, direction \in Directions :
          \A o \in grabput_flag(board, actor, direction) :
              /\ \A a \in Actors : grab[a] = 0 => o.b.af[a] = None
              /\ (/\ board.af[actor] # None
                  /\ \E occupant \in ActorsAt(board, Target(actor, direction)) \ {actor} :
                        grab[occupant] = 0)
                    => (o.result = FALSE /\ o.b = board)

\* a put was just refused because the actor it was aimed at can not grab
C11_Witness ==
    /\ last.op = "grabput_flag" /\ last.log = "target can not have the flag"
    /\ \E a \in Actors : grab[a] = 0 /\ board.af[a] = None
    /\ \E a \in Actors : board.af[a] # None

\* C12: an attack that returns attacked = false (the attacker can not attack,
\* the target cell holds no actor, or the draw fails) leaves every actor
\* position, flag position and carried flag as before, and an attack by an
\* actor of attack probability 0 always returns false.
C12_FailedAttackChangesNothing ==
    \A actor \in Actors, direction \in Directions :
        \A o \in attack(board, actor, direction) :
            /\ o.result = FALSE => o.b = board
            /\ attack_prob[actor] = 0 => o.result = FALSE

\* an attack on an occupied cell just missed
C12_Witness ==
    /\ last.op = "attack" /\ last.log = "missed" /\ last.result = FALSE
    /\ \E a1, a2 \in Actors :
          /\ a1 # a2 /\ attack_prob[a1] = 50
          /\ Abs(board.ac[a1][1] - board.ac[a2][1])
                + Abs(board.ac[a1][2] - board.ac[a2][2]) = 1

\* C13: when the placement of bases and flags has ended, every team's base and
\* flag are on the same cell and any two teams' bases are at a Euclidean
\* distance of at least minimum_distance.
C13_BasesApart ==
    setup.i = Len(teams)
        => LET d == minimum_distance(map_size, Len(teams))
           IN  /\ \A t \in TeamSet : bases_coordinates[t] = board.fc[t]
               /\ \A t1, t2 \in TeamSet :
                     t1 # t2 =>
                        \/ d <= 0
                        \/ (bases_coordinates[t1][1] - bases_coordinates[t2][1])
                              * (bases_coordinates[t1][1] - bases_coordinates[t2][1])
                           + (bases_coordinates[t1][2] - bases_coordinates[t2][2])
                              * (bases_coordinates[t1][2] - bases_coordinates[t2][2])
                           >= d * d

\* two teams have been placed on an 8 x 8 map, where minimum_distance is 3
C13_Witness ==
    /\ setup.i = Len(teams) /\ Len(teams) = 2 /\ map_size = 8
    /\ minimum_distance(map_size, Len(teams)) = 3
    /\ bases_coordinates["S"] # bases_coordinates["G"]

\* C14: the batch that a drain returns is exactly the orders enqueued before
\* the sentinel of the tick and not returned by an earlier drain, in arrival
\* order and without the sentinel; the orders enqueued after the sentinel are
\* still in the queue; no order is lost or handed over twice.
OrdersIn(queue) == SelectSeq(queue, LAMBDA item : item # SENTINEL)

Collected ==
    IF tick.pc = "get" THEN tick.items
    ELSE IF tick.pc = "execute" THEN tick.commands
    ELSE <<>>

C14_DrainReturnsOrdersBeforeSentinel ==
    /\ tick.executed \o Collected \o OrdersIn(command_queue) = tick.submitted
    /\ tick.pc = "execute" =>
          /\ tick.commands
                = SubSeq(tick.submitted, Len(tick.executed) + 1, tick.mark)
          /\ \A n \in 1 .. Len(tick.commands) : tick.commands[n] # SENTINEL
          /\ command_queue
                = SubSeq(tick.submitted, tick.mark + 1, Len(tick.submitted))

\* a drain has returned a batch of two orders while an order that arrived
\* after the sentinel waits in the queue
C14_Witness ==
    /\ tick.pc = "execute"
    /\ Len(tick.commands) = 2
    /\ Len(command_queue) = 1

\* C15: with home_flag_required, when an enemy flag rests on team T's base and
\* an actor puts T's own flag onto T's base, the put reports T as the scoring
\* team, as an evaluation of the score condition over all flags would.
C15_PutEvaluatesAllFlags ==
    home_flag_required
        => \A actor \in Actors, direction \in Directions :
              \A o \in grabput_flag(board, actor, direction) :
                  (/\ o.log = "put"
                   /\ board.af[actor] # None
                   /\ Target(actor, direction) = bases_coordinates[board.af[actor]]
                   /\ \E f \in TeamSet \ {board.af[actor]} :
                         board.fc[f] = bases_coordinates[board.af[actor]])
                      => /\ o.team_that_scored = board.af[actor]
                         /\ o.team_that_scored = _check_score_conditions(o.b, None)

\* C16: a put aimed at a cell that another actor occupies succeeds whatever
\* the draw when the occupant can grab and holds no flag: the putting actor
\* then holds no flag and, unless the flag-return condition fires for the
\* occupant, the flag is on the target cell and the occupant holds it.  When
\* the occupant can not grab or holds a flag the put returns acted = false and
\* changes nothing.
HandOverFires(flag, occupant, o) ==
    /\ \/ flag = occupant.team
       \/ board.fc[occupant.team] = board.ac[occupant]
    /\ o.b.fc[occupant.team] = bases_coordinates[occupant.team]

C17_GrabPostconditions ==
    \A actor \in Actors, direction \in Directions :
        board.af[actor] = None
            => \A o \in grabput_flag(board, actor, direction) :
                  o.result = TRUE
                      => \E F \in FlagsAt(board, Target(actor, direction)) :
                            \/ F = actor.team
                            \/ /\ o.b.af[actor] = F
                               /\ o.b.fc[F] = o.b.ac[actor]
                               /\ \A holder \in Actors \ {actor} :
                                     board.af[holder] = F => o.b.af[holder] = None

\* C18: when the flag-return condition fires for an actor that carries a flag
\* (after its move, or after a flag was handed to it), the actor carries no
\* flag afterwards, and a carried flag other than the returned one is at the
\* actor's cell and nobody holds it.
ReturnFiresOnMove(actor, direction, o) ==
    /\ o.result = TRUE
    /\ \/ board.af[actor] = actor.team
       \/ board.fc[actor.team] = Target(actor, direction)
    /\ o.b.fc[actor.team] = bases_coordinates[actor.team]

DroppedInPlace(carried, actor, o) ==
    /\ o.b.af[actor] = None
    /\ carried # actor.team
          => /\ o.b.fc[carried] = o.b.ac[actor]
             /\ \A a \in Actors : o.b.af[a] # carried

C18_FlagReturnClearsReference ==
    \A actor \in Actors, direction \in Directions :
        board.af[actor] # None
            => /\ \A o \in move(board, actor, direction) :
                     ReturnFiresOnMove(actor, direction, o)
                         => DroppedInPlace(board.af[actor], actor, o)
               /\ \A occupant \in ActorsAt(board, Target(actor, direction)) \ {actor} :
                     \A o \in grabput_flag(board, actor, direction) :
                         (o.result = TRUE
                             /\ HandOverFires(board.af[actor], occupant, o))
                            => DroppedInPlace(board.af[actor], occupant, o)

\* an actor that carries an enemy flag stands next to its own flag, and its
\* move onto it fires the flag-return condition
C18_Witness ==
    \E actor \in Actors, direction \in Directions :
        /\ board.af[actor] \notin {None, actor.team}
        /\ board.fc[actor.team] = Target(actor, direction)
        /\ \E o \in move(board, actor, direction) :
              /\ ReturnFiresOnMove(actor, direction, o)
              /\ o.b.fc[board.af[actor]] = Target(actor, direction)

\* C19 as claimed: every respawn destination lies in the window of
\* _get_area_positions of distance 2 around the base of the actor's team,
\* x in [base.x - 2, base.x + 2) and y in [base.y - 2, base.y + 2).
C19_RespawnInAreaWindow ==
    \A actor \in Actors, direction \in Directions :
        \A target \in ActorsAt(board, Target(actor, direction)) :
            \A o \in attack(board, actor, direction) :
                o.result = TRUE
                    => o.b.ac[target]
                          \in _get_area_positions(bases_coordinates[target.team], 2)

\* C19 amended: every respawn destination lies in the window that is
\* inclusive at both ends, x in [base.x - 2, base.x + 2] and y in
\* [base.y - 2, base.y + 2], whatever the attack probability of the attacker.
C19_RespawnInSymmetricWindow ==
    \A actor \in Actors, direction \in Directions :
        \A target \in ActorsAt(board, Target(actor, direction)) :
            \A o \in attack(board, actor, direction) :
                o.result = TRUE
                    => /\ o.b.ac[target][1] \in
                             bases_coordinates[target.team][1] - 2
                                .. bases_coordinates[target.team][1] + 2
                       /\ o.b.ac[target][2] \in
                             bases_coordinates[target.team][2] - 2
                                .. bases_coordinates[target.team][2] + 2

\* an attack on an actor can respawn it at x = base.x + 2
C19_Witness ==
    \E actor \in Actors, direction \in Directions :
        \E target \in ActorsAt(board, Target(actor, direction)) :
            \E o \in attack(board, actor, direction) :
                /\ o.result = TRUE
                /\ o.b.ac[target][1] = bases_coordinates[target.team][1] + 2

\* C20: the placement of bases and flags ends with every team placed, for
\* every map size from 5 on and every number of teams from 1 on.
C20_PlacementTerminates == <>(setup.i = Len(teams))

\* C21: when the candidate pool is found empty while team k is to be placed,
\* the step only refills the pool with the interior region: the bases and
\* flags assigned so far stay, and placement goes on with team k.
C21_ResetKeepsPlacedTeams ==
    [][(setup.i < Len(teams) /\ setup.available_places = {})
          => /\ setup'.available_places = InteriorPlaces(map_size)
             /\ setup'.i = setup.i
             /\ bases_coordinates' = bases_coordinates
             /\ board'.fc = board.fc]_vars

C23_AttackerStaysPut ==
    \A actor \in Actors, direction \in Directions :
        \A o \in attack(board, actor, direction) :
            /\ o.b.ac[actor] = board.ac[actor]
            /\ o.b.af[actor] = board.af[actor]

\* C27: after an engine operation returns, no actor carries the flag of its
\* own team: an actor that grabs or is handed its own flag ends up holding
\* nothing, with the flag on its base.
C27_NobodyCarriesOwnFlag ==
    \A a \in Actors : board.af[a] # a.team

\* C26: when map generation completes, no two bases share a cell, no two
\* actors share a cell, no actor stands on a base, and no wall coincides with
\* a base or an actor.
C26_GeneratedEntitiesDistinct ==
    setup.done
        => /\ \A t1, t2 \in TeamSet :
                 t1 # t2 => bases_coordinates[t1] # bases_coordinates[t2]
           /\ \A a1, a2 \in DOMAIN board.ac :
                 a1 # a2 => board.ac[a1] # board.ac[a2]
           /\ \A a \in DOMAIN board.ac, t \in TeamSet :
                 board.ac[a] # bases_coordinates[t]
           /\ \A w \in walls_coordinates :
                 /\ \A t \in TeamSet : w # bases_coordinates[t]
                 /\ \A a \in DOMAIN board.ac : w # board.ac[a]

\* C24: from a board on which no actor holds a flag, after any sequence of
\* move, attack and grabput_flag operations no flag is carried by two actors.
C24_OneCarrierPerFlag ==
    \A a1, a2 \in Actors :
        (a1 # a2 /\ board.af[a1] # None) => board.af[a1] # board.af[a2]

\* C25: on the board that the map generator returns, and after any sequence
\* of move, attack and grabput_flag operations on it, no actor and no flag is
\* located on a wall cell.
C25_NothingOnWalls ==
    setup.done
        => /\ \A a \in DOMAIN board.ac : board.ac[a] \notin walls_coordinates
           /\ \A f \in TeamSet : board.fc[f] \notin walls_coordinates

\* an actor has just tried to put its flag onto a wall
C25_Witness ==
    /\ last.op = "grabput_flag" /\ last.log = "hand to a wall"
    /\ \E actor \in Actors, direction \in Directions :
          /\ board.af[actor] # None
          /\ Target(actor, direction) \in walls_coordinates

\* C28: an order submitted during one game is never executed as part of a
\* later game: the batch handed to execute_game_step holds only orders that
\* were submitted after the running game was created.
C28_NoOrderFromEarlierGame ==
    tick.pc = "execute"
        => \A j \in 1 .. Len(tick.commands) : tick.commands[j].game = tick.game

====
